---- MODULE Spec2Model ----
(***************************************************************************)
(* A model of lib/bup/helpers.py: the blocking write _hard_write, the      *)
(* client/server connection Conn with its ok/error completion scan, the    *)
(* readers linereader and chunkyreader, the filesystem timestamp FSTime    *)
(* and the normalised stat_result.                                         *)
(*                                                                         *)
(* Byte strings are sequences of one-character strings.                    *)
(***************************************************************************)
EXTENDS Integers, Sequences, FiniteSets, TLC

VARIABLES
    \* _hard_write(fd, buf)
    hw_data,      \* the buffer passed to _hard_write
    hw_buf,       \* local 'buf': the bytes still to send
    hw_sz_bound,  \* whether local 'sz' has been assigned yet
    hw_sz,        \* local 'sz' (meaningful only when hw_sz_bound)
    hw_sent,      \* the bytes the descriptor has accepted so far, in order
    hw_pc,        \* position in _hard_write
    hw_last,      \* the descriptor's latest response
    \* Conn, one per endpoint; the input stream of an endpoint is the output
    \* stream of its peer
    outbuf,       \* bytes written to Conn.outp and not flushed yet
    wire,         \* bytes flushed from Conn.outp, in order
    closed,       \* whether the endpoint has closed its output stream
    pos,          \* how many bytes of Conn.inp have been consumed
    c_pc,         \* position of the endpoint
    c_mode,       \* "lenient" (drain_and_check_ok) or "strict" (check_ok)
    scan_start,   \* value of pos when the running/latest _check_ok was called
    rl,           \* local 'rl' of _check_ok
    result,       \* outcome of the endpoint's latest Conn operation
    last_err,     \* argument of the endpoint's latest Conn.error call
    s_pc,         \* position of the program that calls the endpoint's Conn
    s_todo,       \* commands the client program has still to send
    \* FSTime
    ns_platform,  \* _helpers.lstat / _helpers._have_ns_fs_timestamps
    t_pc,         \* position of the timestamp client
    t_in,         \* the (secs, nsecs) pair handed to the constructor
    t_ts,         \* the FSTime built
    t_out,        \* result of to_timespec
    \* stat_result
    st_pc,        \* position of the stat client
    st_native,    \* the native stat representation
    st_result,    \* the stat_result built by from_stat_rep
    st_seen,      \* what approx_secs returned for a time field of st_result
    \* two FSTime values and their comparison
    o_pc,         \* position of the comparing client
    o_in,         \* the two (secs, nsecs) pairs handed to the constructors
    o_path,       \* the constructor used for each: from_timespec/from_stat_time
    o_ts,         \* the two FSTime values built
    o_cmp,        \* result of o_ts[1].__cmp__(o_ts[2])
    \* chunkyreader(f, count)
    ck_pc,        \* position in chunkyreader
    ck_count0,    \* the argument 'count'
    ck_count,     \* local 'count': the bytes still to read
    ck_avail,     \* bytes of f before its end-of-stream that are not read yet
    ck_req,       \* size asked of the latest f.read
    ck_b,         \* length of local 'b', the latest chunk read
    ck_sum,       \* total length of the chunks yielded
    ck_n          \* number of chunks yielded

hwvars   == <<hw_data, hw_buf, hw_sz_bound, hw_sz, hw_sent, hw_pc, hw_last>>
connvars == <<outbuf, wire, closed, pos, c_pc, c_mode, scan_start, rl, result,
              last_err, s_pc, s_todo>>
timevars == <<ns_platform, t_pc, t_in, t_ts, t_out>>
statvars == <<st_pc, st_native, st_result, st_seen>>
ordvars  == <<o_pc, o_in, o_path, o_ts, o_cmp>>
chunkvars == <<ck_pc, ck_count0, ck_count, ck_avail, ck_req, ck_b, ck_sum, ck_n>>
vars     == <<hwvars, connvars, timevars, statvars, ordvars, chunkvars>>

Ends == {"client", "server"}
Peer(e) == IF e = "client" THEN "server" ELSE "client"

----------------------------------------------------------------------------
(* Bounds of the model.                                                    *)

MaxBuf   == 3    \* longest buffer handed to _hard_write
MaxLines == 3    \* most lines in an input stream of the completion scan
MaxMsg   == 4    \* longest message handed to Conn.error
MaxOut   == 4    \* a Conn writes only while it has written fewer bytes than this

----------------------------------------------------------------------------
(* Byte-string helpers (python slicing).                                   *)

NL  == "\n"
TAB == "\t"
SP  == " "

\* s[n:]
DropFirst(s, n) == IF n >= Len(s) THEN <<>> ELSE SubSeq(s, n + 1, Len(s))
\* s[:n]
TakeFirst(s, n) == IF n >= Len(s) THEN s ELSE SubSeq(s, 1, n)
\* s[:-1]
ButLast(s) == IF Len(s) = 0 THEN <<>> ELSE SubSeq(s, 1, Len(s) - 1)

SeqsUpTo(S, n) == UNION {[1..k -> S] : k \in 0..n}

----------------------------------------------------------------------------
(* Idle values of each component, used by the specifications that do not   *)
(* exercise it.                                                            *)

HWIdle ==
    /\ hw_data = <<>> /\ hw_buf = <<>> /\ hw_sz_bound = FALSE /\ hw_sz = 0
    /\ hw_sent = <<>> /\ hw_pc = "idle" /\ hw_last = "none"

NoResult == [kind |-> "none", data |-> <<>>]

\* The callers of both Conns follow no program: any operation, any time.
Unscripted == s_pc = [e \in Ends |-> "any"] /\ s_todo = 0

ConnIdle ==
    /\ outbuf = [e \in Ends |-> <<>>]
    /\ wire = [e \in Ends |-> <<>>]
    /\ closed = [e \in Ends |-> TRUE]
    /\ pos = [e \in Ends |-> 0]
    /\ c_pc = [e \in Ends |-> "off"]
    /\ c_mode = [e \in Ends |-> "lenient"]
    /\ scan_start = [e \in Ends |-> 0]
    /\ rl = [e \in Ends |-> <<>>]
    /\ result = [e \in Ends |-> NoResult]
    /\ last_err = [e \in Ends |-> <<>>]
    /\ Unscripted

NoTime == [kind |-> "none", v |-> 0]

TimeIdle ==
    /\ ns_platform = TRUE /\ t_pc = "off" /\ t_in = <<0, 0>>
    /\ t_ts = NoTime /\ t_out = NoTime

StatIdle ==
    /\ st_pc = "off" /\ st_native = NoTime /\ st_result = NoTime
    /\ st_seen = NoTime


OrderIdle ==
    /\ o_pc = "off" /\ o_in = <<<<0, 0>>, <<0, 0>>>>
    /\ o_path = <<"none", "none">> /\ o_ts = <<NoTime, NoTime>>
    /\ o_cmp = NoTime


ChunkIdle ==
    /\ ck_pc = "off" /\ ck_count0 = 0 /\ ck_count = 0 /\ ck_avail = 0
    /\ ck_req = 0 /\ ck_b = 0 /\ ck_sum = 0 /\ ck_n = 0

----------------------------------------------------------------------------
(* _hard_write(fd, buf): helpers.py lines 35-46.                           *)

HWBytes == {"a", "b"}
HWBuffers == SeqsUpTo(HWBytes, MaxBuf)

HWOnly == UNCHANGED <<connvars, timevars, statvars, ordvars, chunkvars>>

HWInit ==
    /\ hw_data \in HWBuffers
    /\ hw_buf = hw_data
    /\ hw_sz_bound = FALSE
    /\ hw_sz = 0
    /\ hw_sent = <<>>
    /\ hw_pc = "loop"
    /\ hw_last = "none"

\* 'while buf:' is false: the function returns.
HardWriteReturn ==
    /\ HWOnly
    /\ hw_pc = "loop"
    /\ hw_buf = <<>>
    /\ hw_pc' = "done"
    /\ UNCHANGED <<hw_data, hw_buf, hw_sz_bound, hw_sz, hw_sent, hw_last>>

\* select() reports the descriptor writable.
HardWriteSelectWritable ==
    /\ HWOnly
    /\ hw_pc = "loop"
    /\ hw_buf # <<>>
    /\ hw_pc' = "write"
    /\ hw_last' = "writable"
    /\ UNCHANGED <<hw_data, hw_buf, hw_sz_bound, hw_sz, hw_sent>>

\* An empty writable list taken as if the descriptor were writable.
HardWriteSelectEmptyIgnored ==
    /\ HWOnly
    /\ hw_pc = "loop"
    /\ hw_buf # <<>>
    /\ hw_pc' = "write"
    /\ hw_last' = "notwritable"
    /\ UNCHANGED <<hw_data, hw_buf, hw_sz_bound, hw_sz, hw_sent>>

\* select() returns with an empty writable list: IOError.
HardWriteSelectEmpty ==
    /\ HWOnly
    /\ hw_pc = "loop"
    /\ hw_buf # <<>>
    /\ hw_pc' = "raised_ioerror"
    /\ hw_last' = "notwritable"
    /\ UNCHANGED <<hw_data, hw_buf, hw_sz_bound, hw_sz, hw_sent>>

\* 'buf = buf[sz:]' after the try block, with whatever 'sz' holds.
HWAdvance(buf, sz) == DropFirst(buf, sz)

\* os.write accepts k bytes (0 <= k <= len(buf)) and returns k.
HardWriteAccept(k) ==
    /\ HWOnly
    /\ hw_pc = "write"
    /\ k \in 0..Len(hw_buf)
    /\ hw_sent' = hw_sent \o TakeFirst(hw_buf, k)
    /\ hw_sz' = k
    /\ hw_sz_bound' = TRUE
    /\ hw_buf' = HWAdvance(hw_buf, k)
    /\ hw_last' = IF k = 0 THEN "zero" ELSE "accepted"
    /\ hw_pc' = "loop"
    /\ UNCHANGED hw_data

\* What follows 'except OSError' when errno is EAGAIN: 'sz' was not
\* assigned by this attempt, so 'assert(sz >= 0)' and 'buf = buf[sz:]' use
\* the value of an earlier attempt, or raise UnboundLocalError if there is
\* none.
HWAfterEagainPc(bound) == IF bound THEN "loop" ELSE "raised_unbound"
HWAfterEagainBuf(buf, bound, sz) == IF bound THEN HWAdvance(buf, sz) ELSE buf

\* os.write raises OSError with errno EAGAIN: nothing is accepted.
HardWriteEagain ==
    /\ HWOnly
    /\ hw_pc = "write"
    /\ hw_last' = "eagain"
    /\ hw_pc' = HWAfterEagainPc(hw_sz_bound)
    /\ hw_buf' = HWAfterEagainBuf(hw_buf, hw_sz_bound, hw_sz)
    /\ UNCHANGED <<hw_data, hw_sz_bound, hw_sz, hw_sent>>

\* os.write raises OSError with another errno: re-raised.
HardWriteOSError ==
    /\ HWOnly
    /\ hw_pc = "write"
    /\ hw_last' = "oserror"
    /\ hw_pc' = "raised_oserror"
    /\ UNCHANGED <<hw_data, hw_buf, hw_sz_bound, hw_sz, hw_sent>>

NextWrite ==
    \/ HardWriteReturn
    \/ HardWriteSelectWritable
    \/ HardWriteSelectEmpty
    \/ \E k \in 0..MaxBuf : HardWriteAccept(k)
    \/ HardWriteEagain
    \/ HardWriteOSError

InitWrite == HWInit /\ ConnIdle /\ TimeIdle /\ StatIdle /\ OrderIdle /\ ChunkIdle

\* _hard_write alone.
SpecWrite == InitWrite /\ [][NextWrite]_vars

\* _hard_write as a running loop: a step that can be taken is taken.
FairSpecWrite == SpecWrite /\ WF_vars(NextWrite)

\* C1: when the blocking write returns, the bytes accepted by the descriptor
\* are exactly the buffer's bytes, in order, each once (responses being
\* partial writes and EAGAIN rejections).
C1_WriteDeliversAll ==
    hw_pc = "done" => hw_sent = hw_data

\* C2: with bytes to send, a descriptor that every poll reports writable and
\* that accepts zero bytes on every write attempt makes write() raise a fatal
\* I/O error eventually.
C2_ZeroProgressRaises ==
    (hw_data # <<>> /\ [](hw_last \in {"none", "writable", "zero"}))
        => <>(hw_pc = "raised_ioerror")

\* C11: when the poll returns no writable descriptor while bytes remain,
\* write() raises the fatal I/O error at once: that poll is followed by no
\* write attempt, no further byte is accepted and there is no further poll.
C11_NotWritableRaisesAtOnce ==
    /\ [](hw_last = "notwritable" => hw_pc = "raised_ioerror" /\ hw_buf # <<>>)
    /\ [][hw_last' = "notwritable" => hw_sent' = hw_sent /\ hw_buf' = hw_buf]_vars
    /\ [][hw_last = "notwritable" => UNCHANGED hwvars]_vars

\* The poll fails after a partial write, with bytes left to send.
C11_Witness ==
    /\ hw_pc = "raised_ioerror"
    /\ hw_last = "notwritable"
    /\ hw_sent # <<>>
    /\ hw_buf # <<>>

----------------------------------------------------------------------------
(* The byte streams of a Conn: helpers.py lines 182-256.                   *)

OkLine      == <<"o", "k">>
ErrorPrefix == <<"e", "r", "r", "o", "r", " ">>

\* rl.startswith(p)
StartsWith(s, p) == Len(s) >= Len(p) /\ SubSeq(s, 1, Len(p)) = p

\* Index of the first newline of s, 0 if it has none.
FirstNewline(s) ==
    LET I == {i \in 1..Len(s) : s[i] = NL}
    IN  IF I = {} THEN 0 ELSE CHOOSE i \in I : \A j \in I : i <= j

\* Conn.inp of endpoint e is what its peer has flushed to its own outp.
Inp(e) == wire[Peer(e)]
InpClosed(e) == closed[Peer(e)]
Unread(e) == DropFirst(Inp(e), pos[e])

\* A readline that takes all that is left of the stream.
FileReadlineAll(rest) == rest

\* f.readline(): up to and including the next newline; at end-of-stream what
\* is left, which is '' when nothing is.
FileReadline(rest) ==
    LET i == FirstNewline(rest) IN IF i = 0 THEN rest ELSE TakeFirst(rest, i)
\* f.readline() blocks until a whole line has arrived or the stream has ended.
ReadlineReady(e) == FirstNewline(Unread(e)) # 0 \/ InpClosed(e)

\* f.read(size): blocks until size bytes have arrived or the stream has ended.
FileRead(rest, size) == TakeFirst(rest, size)
ReadReady(e, size) == Len(Unread(e)) >= size \/ InpClosed(e)

\* A linereader that yields the line as read, newline included.
LineReaderYieldWhole(line) == line

\* What linereader yields for a line read: line[:-1].
LineReaderYield(line) == ButLast(line)

\* A _check_ok that takes any line starting with 'ok' for the line ok.
CheckOkBranchPrefix(r) ==
    IF r = <<>> THEN "empty"
    ELSE IF StartsWith(r, OkLine) THEN "ok"
    ELSE IF StartsWith(r, ErrorPrefix) THEN "error"
    ELSE "other"

\* The branch _check_ok takes on a yielded line.
CheckOkBranch(r) ==
    IF r = <<>> THEN "empty"
    ELSE IF r = OkLine THEN "ok"
    ELSE IF StartsWith(r, ErrorPrefix) THEN "error"
    ELSE "other"

\* A NotOk built from rl[5:], the space of the prefix left in the message.
NotOkOfShort(r) == [kind |-> "NotOk", data |-> DropFirst(r, 5)]

\* NotOk(rl[6:])
NotOkOf(r) == [kind |-> "NotOk", data |-> DropFirst(r, 6)]
RetNone == [kind |-> "None", data |-> <<>>]
\* Exception('server exited unexpectedly; see errors above')
RaiseExited == [kind |-> "raise_exited", data |-> <<>>]
\* Exception('expected "ok", got %r' % rl)
RaiseUnexpected(r) == [kind |-> "raise_unexpected", data |-> r]
DataResult(d) == [kind |-> "data", data |-> d]

\* re.sub(r'\s+', ' ', s): every run of whitespace becomes one space.
IsSpace(c) == c \in {SP, TAB, NL}
RECURSIVE SkipSpace(_)
SkipSpace(s) ==
    IF s # <<>> /\ IsSpace(Head(s)) THEN SkipSpace(Tail(s)) ELSE s
\* A substitution with the pattern ' +': runs of spaces only are collapsed,
\* tabs and newlines stay.
RECURSIVE SkipBlanks(_)
SkipBlanks(s) ==
    IF s # <<>> /\ Head(s) = SP THEN SkipBlanks(Tail(s)) ELSE s
RECURSIVE CollapseBlanksOnly(_)
CollapseBlanksOnly(s) ==
    IF s = <<>> THEN <<>>
    ELSE IF Head(s) = SP THEN <<SP>> \o CollapseBlanksOnly(SkipBlanks(Tail(s)))
    ELSE <<Head(s)>> \o CollapseBlanksOnly(Tail(s))

RECURSIVE CollapseSpace(_)
CollapseSpace(s) ==
    IF s = <<>> THEN <<>>
    ELSE IF IsSpace(Head(s)) THEN <<SP>> \o CollapseSpace(SkipSpace(Tail(s)))
    ELSE <<Head(s)>> \o CollapseSpace(Tail(s))

\* '\nok\n'
OkFrame == <<NL>> \o OkLine \o <<NL>>
\* '\nerror %s\n' % re.sub(r'\s+', ' ', str(s))
ErrorFrame(s) == <<NL>> \o ErrorPrefix \o CollapseSpace(s) \o <<NL>>

\* A step inside a Conn operation, or of the file object: the caller's
\* program stays where it is.
ConnOnly ==
    UNCHANGED <<hwvars, timevars, statvars, ordvars, chunkvars, s_pc, s_todo>>

\* The programs that call a Conn. "any" is a caller that may call any
\* operation at any time. A client sends a command ("send"), then awaits
\* its completion ("await"), for each of its commands. A server reads a
\* command ("recv"), may write output ("work"), signals ok or error
\* ("work", "reply") and reads the next command.
ScriptAllows(p, op) ==
    \/ p = "any"
    \/ p = "send" /\ op = "write"
    \/ p = "await" /\ op = "check"
    \/ p = "recv" /\ op = "readline"
    \/ p = "work" /\ op \in {"write", "ok", "error"}
    \/ p = "reply" /\ op \in {"ok", "error"}
ScriptAfter(p, op, todo) ==
    IF p = "any" THEN "any"
    ELSE IF p = "send" THEN "await"
    ELSE IF p = "await" THEN (IF todo > 0 THEN "send" ELSE "finished")
    ELSE IF p = "recv" THEN "work"
    ELSE IF p = "work" /\ op = "write" THEN "reply"
    ELSE "recv"

\* The caller of e calls operation op of its Conn.
ConnCall(e, op) ==
    /\ UNCHANGED <<hwvars, timevars, statvars, ordvars, chunkvars>>
    /\ ScriptAllows(s_pc[e], op)
    /\ s_pc' = [s_pc EXCEPT ![e] = ScriptAfter(@, op, s_todo)]
    /\ s_todo' = IF s_pc[e] = "send" THEN s_todo - 1 ELSE s_todo

\* The bound of the model on what e writes when its caller follows no
\* program (a program is bounded by its number of commands).
MayWrite(e) == s_pc[e] # "any" \/ Len(wire[e]) + Len(outbuf[e]) < MaxOut

\* self.outp.write(data)
OutpWrite(e, d) == outbuf' = [outbuf EXCEPT ![e] = @ \o d]
\* A read path that leaves out the flush.
OutpFlushMissing(e) == UNCHANGED <<wire, outbuf>>

\* self.outp.flush()
OutpFlush(e) ==
    /\ wire' = [wire EXCEPT ![e] = @ \o outbuf[e]]
    /\ outbuf' = [outbuf EXCEPT ![e] = <<>>]

\* Conn.write(data)
ConnWrite(e, d) ==
    /\ c_pc[e] = "idle"
    /\ MayWrite(e)
    /\ ConnCall(e, "write")
    /\ OutpWrite(e, d)
    /\ result' = [result EXCEPT ![e] = RetNone]
    /\ UNCHANGED <<wire, closed, pos, c_pc, c_mode, scan_start, rl, last_err>>

\* Conn.ok()
ConnOk(e) ==
    /\ c_pc[e] = "idle"
    /\ MayWrite(e)
    /\ ConnCall(e, "ok")
    /\ OutpWrite(e, OkFrame)
    /\ result' = [result EXCEPT ![e] = RetNone]
    /\ UNCHANGED <<wire, closed, pos, c_pc, c_mode, scan_start, rl, last_err>>

\* Conn.error(s)
ConnError(e, s) ==
    /\ c_pc[e] = "idle"
    /\ MayWrite(e)
    /\ ConnCall(e, "error")
    /\ OutpWrite(e, ErrorFrame(s))
    /\ last_err' = [last_err EXCEPT ![e] = s]
    /\ result' = [result EXCEPT ![e] = RetNone]
    /\ UNCHANGED <<wire, closed, pos, c_pc, c_mode, scan_start, rl>>

\* The file object behind Conn.outp sends buffered bytes on its own when its
\* buffer fills: a prefix of the pending output reaches the stream.
OutpSpill(e) ==
    /\ ConnOnly
    /\ \E n \in 1..Len(outbuf[e]) :
          /\ wire' = [wire EXCEPT ![e] = @ \o TakeFirst(outbuf[e], n)]
          /\ outbuf' = [outbuf EXCEPT ![e] = DropFirst(@, n)]
    /\ UNCHANGED <<closed, pos, c_pc, c_mode, scan_start, rl, result, last_err>>

\* Conn.read(size), first statement: self.outp.flush()
ConnReadFlush(e) ==
    /\ c_pc[e] = "idle"
    /\ ConnCall(e, "read")
    /\ OutpFlush(e)
    /\ c_pc' = [c_pc EXCEPT ![e] = "read"]
    /\ UNCHANGED <<closed, pos, c_mode, scan_start, rl, result, last_err>>

\* Conn.read(size), second statement: return self.inp.read(size)
ConnReadInput(e, size) ==
    /\ ConnOnly
    /\ c_pc[e] = "read"
    /\ ReadReady(e, size)
    /\ result' = [result EXCEPT ![e] = DataResult(FileRead(Unread(e), size))]
    /\ pos' = [pos EXCEPT ![e] = @ + Len(FileRead(Unread(e), size))]
    /\ c_pc' = [c_pc EXCEPT ![e] = "idle"]
    /\ UNCHANGED <<outbuf, wire, closed, c_mode, scan_start, rl, last_err>>

\* Conn.readline(), first statement: self.outp.flush()
ConnReadlineFlush(e) ==
    /\ c_pc[e] = "idle"
    /\ ConnCall(e, "readline")
    /\ OutpFlush(e)
    /\ c_pc' = [c_pc EXCEPT ![e] = "readline"]
    /\ UNCHANGED <<closed, pos, c_mode, scan_start, rl, result, last_err>>

\* Conn.readline(), second statement: return self.inp.readline()
ConnReadlineInput(e) ==
    /\ ConnOnly
    /\ c_pc[e] = "readline"
    /\ ReadlineReady(e)
    /\ result' = [result EXCEPT ![e] = DataResult(FileReadline(Unread(e)))]
    /\ pos' = [pos EXCEPT ![e] = @ + Len(FileReadline(Unread(e)))]
    /\ c_pc' = [c_pc EXCEPT ![e] = "idle"]
    /\ UNCHANGED <<outbuf, wire, closed, c_mode, scan_start, rl, last_err>>

\* select() with a zero timeout on the descriptor of Conn.inp: the descriptor
\* is readable when bytes are waiting on it or its stream has ended (a read
\* would return at once in both cases).
FdReadable(e) == Unread(e) # <<>> \/ InpClosed(e)
\* The list 'rl' select() returns: the descriptor, or nothing.
SelectReadList(e) ==
    [kind |-> "select", data |-> IF FdReadable(e) THEN <<"inp">> ELSE <<>>]
RetTrue == [kind |-> "True", data |-> <<>>]

\* A has_input that flushes the pending output before it polls.
ConnHasInputSelectFlushing(e) ==
    /\ c_pc[e] = "idle"
    /\ ConnCall(e, "has_input")
    /\ OutpFlush(e)
    /\ result' = [result EXCEPT ![e] = SelectReadList(e)]
    /\ c_pc' = [c_pc EXCEPT ![e] = "has_input"]
    /\ UNCHANGED <<closed, pos, c_mode, scan_start, rl, last_err>>

\* Conn.has_input(), first statement: select.select([fileno], [], [], 0)
ConnHasInputSelect(e) ==
    /\ c_pc[e] = "idle"
    /\ ConnCall(e, "has_input")
    /\ result' = [result EXCEPT ![e] = SelectReadList(e)]
    /\ c_pc' = [c_pc EXCEPT ![e] = "has_input"]
    /\ UNCHANGED <<outbuf, wire, closed, pos, c_mode, scan_start, rl, last_err>>

\* Conn.has_input(), 'if rl: ... return True / else: return None'
ConnHasInputReturn(e) ==
    /\ ConnOnly
    /\ c_pc[e] = "has_input"
    /\ result' = [result EXCEPT ![e] =
                      IF result[e].data # <<>> THEN RetTrue ELSE RetNone]
    /\ c_pc' = [c_pc EXCEPT ![e] = "idle"]
    /\ UNCHANGED <<outbuf, wire, closed, pos, c_mode, scan_start, rl, last_err>>

\* Conn._check_ok(onempty) up to the loop: self.outp.flush(); rl = ''
CheckOkEnter(e, mode) ==
    /\ c_pc[e] = "idle"
    /\ ConnCall(e, "check")
    /\ OutpFlush(e)
    /\ c_mode' = [c_mode EXCEPT ![e] = mode]
    /\ scan_start' = [scan_start EXCEPT ![e] = pos[e]]
    /\ rl' = [rl EXCEPT ![e] = <<>>]
    /\ result' = [result EXCEPT ![e] = NoResult]
    /\ c_pc' = [c_pc EXCEPT ![e] = "scan"]
    /\ UNCHANGED <<closed, pos, last_err>>

\* Conn.drain_and_check_ok(): onempty does nothing.
DrainAndCheckOk(e) == CheckOkEnter(e, "lenient")

\* Conn.check_ok(): onempty raises.
CheckOk(e) == CheckOkEnter(e, "strict")

\* linereader: f.readline() returns '' and the generator ends; _check_ok
\* leaves its loop and raises.
ScanEndOfStream(e) ==
    /\ ConnOnly
    /\ c_pc[e] = "scan"
    /\ ReadlineReady(e)
    /\ FileReadline(Unread(e)) = <<>>
    /\ result' = [result EXCEPT ![e] = RaiseExited]
    /\ c_pc' = [c_pc EXCEPT ![e] = "idle"]
    /\ UNCHANGED <<outbuf, wire, closed, pos, c_mode, scan_start, rl, last_err>>

\* One turn of the loop of _check_ok on the line linereader yields next; b is
\* the branch taken.
ScanTurn(e, b) ==
    /\ ConnOnly
    /\ c_pc[e] = "scan"
    /\ ReadlineReady(e)
    /\ FileReadline(Unread(e)) # <<>>
    /\ CheckOkBranch(LineReaderYield(FileReadline(Unread(e)))) = b
    /\ pos' = [pos EXCEPT ![e] = @ + Len(FileReadline(Unread(e)))]
    /\ rl' = [rl EXCEPT ![e] = LineReaderYield(FileReadline(Unread(e)))]
    /\ UNCHANGED <<outbuf, wire, closed, c_mode, scan_start, last_err>>

\* 'if not rl: continue'
ScanEmptyLine(e) ==
    /\ ScanTurn(e, "empty")
    /\ UNCHANGED <<c_pc, result>>

\* "elif rl == 'ok': return None"
ScanOk(e) ==
    /\ ScanTurn(e, "ok")
    /\ result' = [result EXCEPT ![e] = RetNone]
    /\ c_pc' = [c_pc EXCEPT ![e] = "idle"]

\* "elif rl.startswith('error '): return NotOk(rl[6:])"
ScanError(e) ==
    /\ ScanTurn(e, "error")
    /\ result' = [result EXCEPT ![e] = NotOkOf(rl'[e])]
    /\ c_pc' = [c_pc EXCEPT ![e] = "idle"]

\* onempty(rl) of drain_and_check_ok: pass
ScanDiscard(e) ==
    /\ ScanTurn(e, "other")
    /\ c_mode[e] = "lenient"
    /\ UNCHANGED <<c_pc, result>>

\* onempty(rl) of check_ok: raise
ScanReject(e) ==
    /\ ScanTurn(e, "other")
    /\ c_mode[e] = "strict"
    /\ result' = [result EXCEPT ![e] = RaiseUnexpected(rl'[e])]
    /\ c_pc' = [c_pc EXCEPT ![e] = "idle"]

----------------------------------------------------------------------------
(* The completion scan on its own: the server has written a stream and has  *)
(* exited; the client runs drain_and_check_ok / check_ok on it.             *)

Garbage   == <<"g", "a", "r", "b", "a", "g", "e">>
DiskFull  == <<"d", "i", "s", "k", " ", "f", "u", "l", "l">>
\* Line contents a server may send: blank, the sentinels, text that only
\* resembles a sentinel, and other text.
LineBodies ==
    { <<>>, OkLine, OkLine \o <<SP>>, OkLine \o <<"a", "y">>,
      <<"e", "r", "r", "o", "r">>, ErrorPrefix, ErrorPrefix \o DiskFull,
      Garbage }

RECURSIVE JoinLines(_)
JoinLines(ls) ==
    IF ls = <<>> THEN <<>> ELSE Head(ls) \o <<NL>> \o JoinLines(Tail(ls))

\* Streams of at most MaxLines lines; the server may have exited before it
\* wrote the last newline.
Streams ==
    LET Whole == {JoinLines(ls) : ls \in SeqsUpTo(LineBodies, MaxLines)}
    IN  Whole \cup {ButLast(w) : w \in Whole}

InitScan ==
    /\ HWIdle /\ TimeIdle /\ StatIdle /\ OrderIdle /\ ChunkIdle
    /\ outbuf = [e \in Ends |-> <<>>]
    /\ \E w \in Streams : wire = [e \in Ends |-> IF e = "server" THEN w ELSE <<>>]
    /\ closed = [e \in Ends |-> e = "server"]
    /\ pos = [e \in Ends |-> 0]
    /\ c_pc = [e \in Ends |-> IF e = "client" THEN "idle" ELSE "off"]
    /\ c_mode = [e \in Ends |-> "lenient"]
    /\ scan_start = [e \in Ends |-> 0]
    /\ rl = [e \in Ends |-> <<>>]
    /\ result = [e \in Ends |-> NoResult]
    /\ last_err = [e \in Ends |-> <<>>]
    /\ Unscripted

NextScan ==
    \/ DrainAndCheckOk("client")
    \/ CheckOk("client")
    \/ ScanEndOfStream("client")
    \/ ScanEmptyLine("client")
    \/ ScanOk("client")
    \/ ScanError("client")
    \/ ScanDiscard("client")
    \/ ScanReject("client")

SpecScan == InitScan /\ [][NextScan]_vars

(* The words of the claims about the scan, stated on the stream itself. A   *)
(* line is a run of bytes ended by a newline (the wire framing); the bytes  *)
(* after the last newline, if any, are the unended tail.                    *)

\* The contents of the lines of s, newline removed.
RECURSIVE LinesOf(_)
LinesOf(s) ==
    LET i == FirstNewline(s)
    IN  IF i = 0 THEN <<>>
        ELSE <<TakeFirst(s, i - 1)>> \o LinesOf(DropFirst(s, i))
\* The bytes after the last newline of s.
RECURSIVE TailOf(_)
TailOf(s) ==
    LET i == FirstNewline(s) IN IF i = 0 THEN s ELSE TailOf(DropFirst(s, i))

IsOkLine(b)    == b = OkLine
IsErrorLine(b) == Len(b) >= 6 /\ SubSeq(b, 1, 6) = ErrorPrefix
IsSentinel(b)  == IsOkLine(b) \/ IsErrorLine(b)
IsBlank(b)     == b = <<>>
IsStray(b)     == ~IsBlank(b) /\ ~IsSentinel(b)

\* Least index of a sentinel (of a stray) line in ls, 0 if there is none.
FirstSentinel(ls) ==
    LET I == {i \in 1..Len(ls) : IsSentinel(ls[i])}
    IN  IF I = {} THEN 0 ELSE CHOOSE i \in I : \A j \in I : i <= j
FirstStray(ls) ==
    LET I == {i \in 1..Len(ls) : IsStray(ls[i])}
    IN  IF I = {} THEN 0 ELSE CHOOSE i \in I : \A j \in I : i <= j

\* Number of bytes of the first n lines of ls, newlines included.
RECURSIVE BytesOf(_, _)
BytesOf(ls, n) == IF n = 0 THEN 0 ELSE Len(ls[n]) + 1 + BytesOf(ls, n - 1)

\* What the client's running/latest scan was given: the input from the
\* place where it started.
ScanInput == DropFirst(Inp("client"), scan_start["client"])
ScanLines == LinesOf(ScanInput)
ScanOver  == c_pc["client"] = "idle" /\ result["client"].kind # "none"

\* C3: in lenient mode, when the input holds stray and blank lines followed
\* by the line ok (its first sentinel line), the scan returns None.
C3_LenientReachesOk ==
    (/\ ScanOver
     /\ c_mode["client"] = "lenient"
     /\ FirstSentinel(ScanLines) # 0
     /\ IsOkLine(ScanLines[FirstSentinel(ScanLines)]))
    => result["client"] = RetNone

\* A lenient scan has returned None after discarding a stray line and
\* skipping a blank line that came before the ok line.
C3_Witness ==
    /\ ScanOver
    /\ c_mode["client"] = "lenient"
    /\ result["client"] = RetNone
    /\ FirstSentinel(ScanLines) = 3
    /\ IsOkLine(ScanLines[3])
    /\ \E i \in 1..2 : IsStray(ScanLines[i])
    /\ \E i \in 1..2 : IsBlank(ScanLines[i])

\* C4: in strict mode, the first non-blank line that is neither ok nor
\* prefixed by 'error ' (it comes before any sentinel line) makes the scan
\* raise the protocol violation carrying that line, having read no byte past
\* that line; text that only resembles a sentinel counts as such a line.
C4_StrictRejectsFirstStray ==
    (/\ ScanOver
     /\ c_mode["client"] = "strict"
     /\ FirstStray(ScanLines) # 0
     /\ FirstSentinel(ScanLines) \in {0} \cup (FirstStray(ScanLines) + 1)..Len(ScanLines))
    => /\ result["client"] = RaiseUnexpected(ScanLines[FirstStray(ScanLines)])
       /\ pos["client"] = scan_start["client"] + BytesOf(ScanLines, FirstStray(ScanLines))

\* A strict scan has raised on a line that only resembles a sentinel, with
\* a line ok after it left unread.
C4_Witness ==
    /\ ScanOver
    /\ c_mode["client"] = "strict"
    /\ result["client"].kind = "raise_unexpected"
    /\ result["client"].data \in {OkLine \o <<SP>>, OkLine \o <<"a", "y">>,
                                  <<"e", "r", "r", "o", "r">>}
    /\ FirstStray(ScanLines) # 0
    /\ FirstSentinel(ScanLines) > FirstStray(ScanLines)
    /\ IsOkLine(ScanLines[FirstSentinel(ScanLines)])
    /\ pos["client"] < Len(Inp("client"))

\* C5 as stated: when the first sentinel line of the input is 'error <m>',
\* the scan, in either mode, returns NotOk whose message is the rest of that
\* line after the six bytes 'error '.
C5_ErrorLineReturnsNotOk ==
    (/\ ScanOver
     /\ FirstSentinel(ScanLines) # 0
     /\ IsErrorLine(ScanLines[FirstSentinel(ScanLines)]))
    => result["client"] =
         [kind |-> "NotOk",
          data |-> SubSeq(ScanLines[FirstSentinel(ScanLines)], 7,
                          Len(ScanLines[FirstSentinel(ScanLines)]))]

\* C5 as amended: the same, in strict mode only when no stray line comes
\* before that error line (only blank lines do).
C5_ErrorLineReturnsNotOkUnlessRejected ==
    (/\ ScanOver
     /\ FirstSentinel(ScanLines) # 0
     /\ IsErrorLine(ScanLines[FirstSentinel(ScanLines)])
     /\ c_mode["client"] = "strict" =>
            FirstStray(ScanLines) \in {0} \cup
                (FirstSentinel(ScanLines) + 1)..Len(ScanLines))
    => result["client"] =
         [kind |-> "NotOk",
          data |-> SubSeq(ScanLines[FirstSentinel(ScanLines)], 7,
                          Len(ScanLines[FirstSentinel(ScanLines)]))]

\* A strict scan of '\nerror disk full\n' has returned NotOk('disk full').
C5_Witness ==
    /\ ScanOver
    /\ c_mode["client"] = "strict"
    /\ Len(ScanLines) >= 2
    /\ ScanLines[1] = <<>>
    /\ ScanLines[2] = ErrorPrefix \o DiskFull
    /\ result["client"] = [kind |-> "NotOk", data |-> DiskFull]

\* C6: when the stream ends without a line ok or a line starting with
\* 'error ' (and, in strict mode, without a stray line to raise on), the scan
\* raises 'server exited unexpectedly': it returns neither None nor NotOk.
C6_EndOfStreamRaisesExited ==
    (/\ ScanOver
     /\ FirstSentinel(ScanLines) = 0
     /\ ~IsSentinel(TailOf(ScanInput))
     /\ c_mode["client"] = "strict" =>
            FirstStray(ScanLines) = 0 /\ ~IsStray(TailOf(ScanInput)))
    => result["client"] = RaiseExited

\* The input the client has consumed, and the line its latest readline took
\* from it with only a terminating newline removed: the last newline-ended
\* line, or the unended tail when the stream ended without a newline.
Consumed == TakeFirst(Inp("client"), pos["client"])
LastLineRead ==
    IF Consumed # <<>> /\ Consumed[Len(Consumed)] = NL
    THEN LinesOf(Consumed)[Len(LinesOf(Consumed))]
    ELSE TailOf(Consumed)

\* C15: linereader yields each line of the stream, in order, with only its
\* terminating newline removed: no other character is dropped, also not from
\* a last line that reaches end-of-stream without a newline (a stream ending
\* in ok without newline yields ok).
C15_LinesKeepContent ==
    (/\ c_pc["client"] \in {"scan", "idle"}
     /\ pos["client"] > scan_start["client"])
    => rl["client"] = LastLineRead

\* The terminal state the first sentinel line of ls decides: Completed(ok),
\* Completed(error) with the rest of the line, or Fatal(unexpected-eof) when
\* ls has no sentinel line.
OutcomeOf(ls) ==
    IF FirstSentinel(ls) = 0 THEN RaiseExited
    ELSE IF IsOkLine(ls[FirstSentinel(ls)]) THEN RetNone
    ELSE [kind |-> "NotOk", data |-> DropFirst(ls[FirstSentinel(ls)], 6)]

\* C16: a lenient scan of a finite input ends in one of Completed(ok),
\* Completed(error), Fatal(unexpected-eof), and which one is decided by the
\* first line that is ok or starts with 'error ', or by the end of the stream
\* when there is no such line (the unended tail of the input not being such
\* a line either).
C16_LenientOutcomeByFirstSentinel ==
    (/\ ScanOver
     /\ c_mode["client"] = "lenient"
     /\ ~IsSentinel(TailOf(ScanInput)))
    => result["client"] = OutcomeOf(ScanLines)

(* Responses read one after the other: the client calls drain_and_check_ok *)
(* again and again on the stream the server has written.                   *)

NextSync ==
    \/ DrainAndCheckOk("client")
    \/ ScanEndOfStream("client")
    \/ ScanEmptyLine("client")
    \/ ScanOk("client")
    \/ ScanError("client")
    \/ ScanDiscard("client")

SpecSync == InitScan /\ [][NextSync]_vars

\* The sentinel lines among ls, in order.
SentinelsOf(ls) == SelectSeq(ls, IsSentinel)
\* The place where the scan started is the start of the stream, the byte
\* after a sentinel line, or the end of the stream.
StartsAfterSentinel ==
    LET before == TakeFirst(Inp("client"), scan_start["client"])
    IN  \/ scan_start["client"] = 0
        \/ scan_start["client"] = Len(Inp("client"))
        \/ /\ before[Len(before)] = NL
           /\ IsSentinel(LinesOf(before)[Len(LinesOf(before))])

\* C17: a completion scan consumes the input up to and including its first
\* sentinel line and nothing after it; so with responses written back to
\* back, each ended by its own ok or error line, successive calls of
\* drain_and_check_ok return their outcomes in order, one per call: the call
\* that has consumed k sentinel lines returns the outcome of the k-th.
C17_ResponsesStayInSync ==
    /\ StartsAfterSentinel
    /\ (ScanOver /\ FirstSentinel(ScanLines) # 0) =>
          /\ pos["client"] = scan_start["client"]
                               + BytesOf(ScanLines, FirstSentinel(ScanLines))
          /\ result["client"] = OutcomeOf(ScanLines)
          /\ LET k == Len(SentinelsOf(LinesOf(Consumed)))
             IN  /\ k = 1 + Len(SentinelsOf(LinesOf(
                                TakeFirst(Inp("client"), scan_start["client"]))))
                 /\ result["client"] =
                        OutcomeOf(<<SentinelsOf(LinesOf(Inp("client")))[k]>>)

\* Of the responses 'ok' and 'garbage, error disk full', the second call has
\* returned NotOk('disk full').
C17_Witness ==
    /\ ScanOver
    /\ Inp("client") = JoinLines(<<OkLine, Garbage, ErrorPrefix \o DiskFull>>)
    /\ scan_start["client"] = Len(OkLine) + 1
    /\ pos["client"] = Len(Inp("client"))
    /\ result["client"] = [kind |-> "NotOk", data |-> DiskFull]

----------------------------------------------------------------------------
(* The error frame from one side to the other: the server calls error(s)   *)
(* and goes on to read its next command; the client awaits completion.     *)

ErrChars == {"a", SP, NL, TAB}
ErrMsgs  == SeqsUpTo(ErrChars, MaxMsg)

InitFrame ==
    /\ HWIdle /\ TimeIdle /\ StatIdle /\ OrderIdle /\ ChunkIdle
    /\ outbuf = [e \in Ends |-> <<>>]
    /\ wire = [e \in Ends |-> <<>>]
    /\ closed = [e \in Ends |-> FALSE]
    /\ pos = [e \in Ends |-> 0]
    /\ c_pc = [e \in Ends |-> "idle"]
    /\ c_mode = [e \in Ends |-> "lenient"]
    /\ scan_start = [e \in Ends |-> 0]
    /\ rl = [e \in Ends |-> <<>>]
    /\ result = [e \in Ends |-> NoResult]
    /\ last_err = [e \in Ends |-> <<>>]
    /\ Unscripted

NextFrame ==
    \/ \E s \in ErrMsgs : ConnError("server", s)
    \/ OutpSpill("server")
    \/ ConnReadlineFlush("server")
    \/ DrainAndCheckOk("client")
    \/ CheckOk("client")
    \/ ScanEmptyLine("client")
    \/ ScanError("client")

SpecFrame == InitFrame /\ [][NextFrame]_vars

\* The words of s: its maximal runs of bytes that are not whitespace.
RECURSIVE WordsOf(_)
WordsOf(s) ==
    IF s = <<>> THEN <<>>
    ELSE IF Head(s) \in {SP, TAB, NL} THEN WordsOf(Tail(s))
    ELSE LET n == CHOOSE k \in 1..Len(s) :
                    /\ \A i \in 1..k : s[i] \notin {SP, TAB, NL}
                    /\ k = Len(s) \/ s[k + 1] \in {SP, TAB, NL}
         IN  <<SubSeq(s, 1, n)>> \o WordsOf(DropFirst(s, n))

\* c is m with every run of whitespace replaced by one space.
IsCollapsed(c, m) ==
    /\ \A i \in 1..Len(c) : c[i] \notin {TAB, NL}
    /\ \A i \in 1..(Len(c) - 1) : ~(c[i] = SP /\ c[i + 1] = SP)
    /\ WordsOf(c) = WordsOf(m)
    /\ (c # <<>> /\ c[1] = SP) <=> (m # <<>> /\ m[1] \in {SP, TAB, NL})
    /\ (c # <<>> /\ c[Len(c)] = SP) <=> (m # <<>> /\ m[Len(m)] \in {SP, TAB, NL})

\* Everything the server has written so far, flushed or not.
ServerOutput == wire["server"] \o outbuf["server"]
ServerCalledError == result["server"].kind # "none"

\* C7: error(m) writes a blank line and exactly one line, 'error ' followed
\* by m with its whitespace runs collapsed to single spaces, and the peer's
\* completion scan of that output returns NotOk carrying that collapsed
\* message.
C7_ErrorFrameRoundTrip ==
    /\ ServerCalledError =>
          /\ TailOf(ServerOutput) = <<>>
          /\ Len(LinesOf(ServerOutput)) = 2
          /\ LinesOf(ServerOutput)[1] = <<>>
          /\ StartsWith(LinesOf(ServerOutput)[2], ErrorPrefix)
          /\ IsCollapsed(DropFirst(LinesOf(ServerOutput)[2], 6), last_err["server"])
    /\ ScanOver =>
          /\ result["client"].kind = "NotOk"
          /\ IsCollapsed(result["client"].data, last_err["server"])
          /\ result["client"].data = DropFirst(LinesOf(ServerOutput)[2], 6)

\* The client has received NotOk('a a') for a message with an embedded
\* newline and a run of whitespace.
C7_Witness ==
    /\ ScanOver
    /\ last_err["server"] = <<"a", NL, TAB, "a">>
    /\ result["client"] = [kind |-> "NotOk", data |-> <<"a", SP, "a">>]

----------------------------------------------------------------------------
(* One Conn under any sequence of its operations; its peer has written a   *)
(* stream and may have closed it.                                          *)

WriteData  == {<<"a">>, <<"a", NL>>}
ConnErrors == {<<>>, <<"a", NL>>}
ReadSizes  == {1, 3}
PeerStreams ==
    { <<>>, <<"a", NL>>, OkFrame, <<"a", "a", NL>> \o OkFrame,
      <<NL>> \o ErrorPrefix \o <<"a", NL>>, OkFrame \o <<"a">> }

InitConn ==
    /\ HWIdle /\ TimeIdle /\ StatIdle /\ OrderIdle /\ ChunkIdle
    /\ outbuf = [e \in Ends |-> <<>>]
    /\ \E w \in PeerStreams : wire = [e \in Ends |-> IF e = "server" THEN w ELSE <<>>]
    /\ \E b \in BOOLEAN : closed = [e \in Ends |-> e = "server" /\ b]
    /\ pos = [e \in Ends |-> 0]
    /\ c_pc = [e \in Ends |-> IF e = "client" THEN "idle" ELSE "off"]
    /\ c_mode = [e \in Ends |-> "lenient"]
    /\ scan_start = [e \in Ends |-> 0]
    /\ rl = [e \in Ends |-> <<>>]
    /\ result = [e \in Ends |-> NoResult]
    /\ last_err = [e \in Ends |-> <<>>]
    /\ Unscripted

NextConn ==
    \/ \E d \in WriteData : ConnWrite("client", d)
    \/ ConnOk("client")
    \/ \E s \in ConnErrors : ConnError("client", s)
    \/ OutpSpill("client")
    \/ ConnReadFlush("client")
    \/ \E size \in ReadSizes : ConnReadInput("client", size)
    \/ ConnReadlineFlush("client")
    \/ ConnReadlineInput("client")
    \/ ConnHasInputSelect("client")
    \/ ConnHasInputReturn("client")
    \/ DrainAndCheckOk("client")
    \/ CheckOk("client")
    \/ ScanEndOfStream("client")
    \/ ScanEmptyLine("client")
    \/ ScanOk("client")
    \/ ScanError("client")
    \/ ScanDiscard("client")
    \/ ScanReject("client")

SpecConn == InitConn /\ [][NextConn]_vars

\* The endpoint is inside read, readline or the completion scan, at or
\* waiting in a read of its input stream.
Reading(e) == c_pc[e] \in {"read", "readline", "scan"}

\* C8: whenever read, readline, check_ok or drain_and_check_ok reads from
\* the input stream, no byte passed to write, ok or error is still pending:
\* all of them have been flushed to the output stream.
C8_FlushedBeforeRead ==
    \A e \in Ends : Reading(e) => outbuf[e] = <<>>

\* The client reads after having written an ok frame and more, all of it on
\* the output stream.
C8_Witness ==
    /\ Reading("client")
    /\ Len(wire["client"]) > Len(OkFrame)
    /\ \E i \in 1..(Len(wire["client"]) - 3) :
           SubSeq(wire["client"], i, i + 3) = OkFrame

\* The state of a Conn that a caller can observe through read, readline and
\* the streams: pending output, output stream, input position.
ConnStreams == <<outbuf, wire, closed, pos, rl, scan_start, last_err>>

\* C12: has_input() changes nothing. It never blocks (both of its steps can
\* be taken whenever they are reached), it consumes no input byte, it neither
\* writes nor flushes output, and it returns True exactly when the input
\* descriptor is readable (None otherwise), so that a read or readline after
\* it gets the bytes it would have got without it.
C12_HasInputChangesNothing ==
    /\ [](\A e \in Ends :
            /\ c_pc[e] = "idle" => ENABLED ConnHasInputSelect(e)
            /\ c_pc[e] = "has_input" =>
                   /\ ENABLED ConnHasInputReturn(e)
                   /\ result[e].data # <<>> <=> FdReadable(e))
    /\ [][\A e \in Ends :
            /\ c_pc'[e] = "has_input" /\ c_pc[e] # "has_input" =>
                   /\ c_pc[e] = "idle"
                   /\ UNCHANGED ConnStreams
            /\ c_pc[e] = "has_input" /\ c_pc'[e] # "has_input" =>
                   /\ c_pc'[e] = "idle"
                   /\ UNCHANGED ConnStreams
                   /\ result'[e] = IF FdReadable(e) THEN RetTrue ELSE RetNone
                   /\ FileReadline(Unread(e))' = FileReadline(Unread(e))
                   /\ \A size \in ReadSizes :
                          FileRead(Unread(e), size)' = FileRead(Unread(e), size)
          ]_vars

\* has_input polls with output pending and part of the input consumed, the
\* rest of it waiting.
C12_Witness ==
    /\ c_pc["client"] = "has_input"
    /\ outbuf["client"] # <<>>
    /\ pos["client"] > 0
    /\ Unread("client") # <<>>

----------------------------------------------------------------------------
(* A session of two Conns: the client sends commands and awaits the        *)
(* completion of each, the server reads a command, writes its output,      *)
(* signals ok or error and reads the next command. Neither closes its      *)
(* stream, and what each writes stays below the buffer size of its file    *)
(* object: pending output is sent by flush only.                           *)

MaxCmds == 2

SessCmd     == <<"c", NL>>
SessOutputs == {<<"a">>, <<"a", NL>>}
SessErrors  == {<<"a">>}

InitSession ==
    /\ HWIdle /\ TimeIdle /\ StatIdle /\ OrderIdle /\ ChunkIdle
    /\ outbuf = [e \in Ends |-> <<>>]
    /\ wire = [e \in Ends |-> <<>>]
    /\ closed = [e \in Ends |-> FALSE]
    /\ pos = [e \in Ends |-> 0]
    /\ c_pc = [e \in Ends |-> "idle"]
    /\ c_mode = [e \in Ends |-> "lenient"]
    /\ scan_start = [e \in Ends |-> 0]
    /\ rl = [e \in Ends |-> <<>>]
    /\ result = [e \in Ends |-> NoResult]
    /\ last_err = [e \in Ends |-> <<>>]
    /\ s_pc = [e \in Ends |-> IF e = "client" THEN "send" ELSE "recv"]
    /\ s_todo \in 1..MaxCmds

\* The steps of the client process.
SessionClient ==
    \/ ConnWrite("client", SessCmd)
    \/ DrainAndCheckOk("client")
    \/ CheckOk("client")
    \/ ScanEmptyLine("client")
    \/ ScanOk("client")
    \/ ScanError("client")
    \/ ScanDiscard("client")
    \/ ScanReject("client")

\* The steps of the server process.
SessionServer ==
    \/ ConnReadlineFlush("server")
    \/ ConnReadlineInput("server")
    \/ \E d \in SessOutputs : ConnWrite("server", d)
    \/ ConnOk("server")
    \/ \E m \in SessErrors : ConnError("server", m)

NextSession ==
    \/ ConnWrite("client", SessCmd)
    \/ DrainAndCheckOk("client")
    \/ CheckOk("client")
    \/ ScanEmptyLine("client")
    \/ ScanOk("client")
    \/ ScanError("client")
    \/ ScanDiscard("client")
    \/ ScanReject("client")
    \/ ConnReadlineFlush("server")
    \/ ConnReadlineInput("server")
    \/ \E d \in SessOutputs : ConnWrite("server", d)
    \/ ConnOk("server")
    \/ \E m \in SessErrors : ConnError("server", m)

SpecSession == InitSession /\ [][NextSession]_vars

\* Both processes run: a process that can take a step takes one.
FairSpecSession ==
    SpecSession /\ WF_vars(SessionClient) /\ WF_vars(SessionServer)

\* The endpoint waits in a read of its input stream for bytes that have not
\* arrived.
BlockedReading(e) ==
    \/ c_pc[e] \in {"readline", "scan"} /\ ~ReadlineReady(e)
    \/ c_pc[e] = "read" /\ \A size \in ReadSizes : ~ReadReady(e, size)

\* C14: in a session, no state has both sides blocked reading while bytes
\* written by either side are not flushed, and every wait of the client for
\* the completion of a command it has sent ends.
C14_SessionDeadlockFree ==
    /\ [](~(/\ BlockedReading("client")
            /\ BlockedReading("server")
            /\ \E e \in Ends : outbuf[e] # <<>>))
    /\ (s_pc["client"] = "await" \/ c_pc["client"] = "scan")
           ~> (s_pc["client"] # "await" /\ c_pc["client"] = "idle")

\* The wait for the last of two commands has ended, both responses read to
\* their end.
C14_Witness ==
    /\ s_pc["client"] = "finished"
    /\ c_pc["client"] = "idle"
    /\ Len(wire["client"]) = 2 * Len(SessCmd)
    /\ pos["client"] = Len(wire["server"])
    /\ pos["client"] > 2 * Len(OkFrame)

----------------------------------------------------------------------------
(* FSTime: helpers.py lines 416-487. Values are tagged: an integer is      *)
(* [kind |-> "int", v |-> n], a float of value s + ns/10^9 is              *)
(* [kind |-> "float", v |-> <<s, ns>>] (rounding is not modelled), a pair  *)
(* is [kind |-> "timespec", v |-> <<s, ns>>], an FSTime instance is        *)
(* [kind |-> "FSTime", v |-> its _value], and a raised exception is        *)
(* [kind |-> "raise", v |-> its name].                                     *)

NsecPerSec == 1000000000

IntVal(n)      == [kind |-> "int", v |-> n]
FloatVal(p)    == [kind |-> "float", v |-> p]
TimespecVal(p) == [kind |-> "timespec", v |-> p]
FSTimeOf(x)    == [kind |-> "FSTime", v |-> x]
Raised(name)   == [kind |-> "raise", v |-> name]

\* FSTime.from_timespec(timespec)
FromTimespec(nsmode, x) ==
    IF nsmode
    THEN \* ts._value = timespec[0] * 10**9 + timespec[1]
         IF x.kind = "timespec"
         THEN FSTimeOf(IntVal(x.v[1] * NsecPerSec + x.v[2]))
         ELSE IF x.kind = "float" THEN Raised("TypeError")
         ELSE Raised("AttributeError")
    ELSE \* ts._value = timespec[0] + (timespec[1] / 10e8)
         IF x.kind = "timespec"
         THEN FSTimeOf(FloatVal(x.v))
         ELSE IF x.kind = "float" THEN Raised("TypeError")
         ELSE Raised("AttributeError")

\* FSTime.from_stat_time(stat_time)
FromStatTime(nsmode, x) ==
    IF nsmode THEN FromTimespec(nsmode, x) ELSE FSTimeOf(x)

\* FSTime.secs_nsecs() with integer nanoseconds
SecsNsecs(n) ==
    IF n >= 0
    THEN <<n \div NsecPerSec, n % NsecPerSec>>
    ELSE <<-((-n) \div NsecPerSec), -((-n) % NsecPerSec)>>

\* A to_timespec that adds 10**9 to ns without taking one from s.
BorrowKeepsSecs(p) == <<p[1], NsecPerSec + p[2]>>

\* The last line of to_timespec, for a negative ns.
Borrow(p) == <<p[1] - 1, NsecPerSec + p[2]>>

\* FSTime.to_timespec(); with floating-point seconds secs_nsecs uses the
\* module math, which helpers.py never imports.
ToTimespec(nsmode, ts) ==
    IF ~nsmode THEN Raised("NameError")
    ELSE LET p == SecsNsecs(ts.v.v)
         IN  IF p[1] > 0 \/ p[2] >= 0 THEN TimespecVal(p)
             ELSE TimespecVal(Borrow(p))

\* FSTime.approx_secs()
ApproxSecs(nsmode, ts) ==
    IF nsmode
    THEN \* self._value / 10e8
         IF ts.v.kind = "int"
         THEN FloatVal(<<ts.v.v \div NsecPerSec, ts.v.v % NsecPerSec>>)
         ELSE Raised("TypeError")
    ELSE \* self._value
         ts.v

\* The native stat payload for three times: on a nanosecond platform the
\* tuple of _helpers.lstat with (s, ns) pairs, otherwise the object of
\* os.lstat with float seconds.
NativeTime(nsmode, p) == IF nsmode THEN TimespecVal(p) ELSE FloatVal(p)

TimeSecs  == {-2, -1, 0, 1}
TimeNsecs == {0, 1, 500000000, 999999999}

TimeOnly == UNCHANGED <<hwvars, connvars, statvars, ordvars, chunkvars>>

InitTime ==
    /\ HWIdle /\ ConnIdle /\ StatIdle /\ OrderIdle /\ ChunkIdle
    /\ ns_platform \in BOOLEAN
    /\ t_pc = "new"
    /\ t_in \in TimeSecs \X TimeNsecs
    /\ t_ts = NoTime
    /\ t_out = NoTime

\* ts = FSTime.from_timespec((s, ns))
TimeFromTimespec ==
    /\ TimeOnly
    /\ t_pc = "new"
    /\ t_ts' = FromTimespec(ns_platform, TimespecVal(t_in))
    /\ t_pc' = "from_timespec"
    /\ UNCHANGED <<ns_platform, t_in, t_out>>

\* ts = FSTime.from_stat_time(t), t being the platform's stat time for
\* (s, ns): the pair itself, or the float s + ns/10^9.
TimeFromStatTime ==
    /\ TimeOnly
    /\ t_pc = "new"
    /\ t_ts' = FromStatTime(ns_platform,
                  IF ns_platform THEN TimespecVal(t_in) ELSE FloatVal(t_in))
    /\ t_pc' = "from_stat_time"
    /\ UNCHANGED <<ns_platform, t_in, t_out>>

\* ts.to_timespec()
TimeToTimespec ==
    /\ TimeOnly
    /\ t_pc \in {"from_timespec", "from_stat_time"}
    /\ t_out' = ToTimespec(ns_platform, t_ts)
    /\ t_pc' = "converted"
    /\ UNCHANGED <<ns_platform, t_in, t_ts>>

NextTime ==
    \/ TimeFromTimespec
    \/ TimeFromStatTime
    \/ TimeToTimespec

SpecTime == InitTime /\ [][NextTime]_vars

----------------------------------------------------------------------------
(* Two FSTime values compared: FSTime.__cmp__, helpers.py lines 422-423.   *)

\* int.__cmp__: -1, 0 or 1.
IntCmp(x, y) == IF x < y THEN -1 ELSE IF x = y THEN 0 ELSE 1

\* A comparison that looks at whole seconds only.
FSTimeCmpSecs(a, b) ==
    IF a.v.kind = "int"
    THEN IntVal(IntCmp(a.v.v \div NsecPerSec, b.v.v \div NsecPerSec))
    ELSE Raised("AttributeError")

\* a.__cmp__(b): self._value.__cmp__(x._value). An integer _value compares
\* as an integer; a float has no method __cmp__.
FSTimeCmp(a, b) ==
    IF a.v.kind = "int"
    THEN IntVal(IntCmp(a.v.v, b.v.v))
    ELSE Raised("AttributeError")

OrderOnly == UNCHANGED <<hwvars, connvars, timevars, statvars, chunkvars>>

InitOrder ==
    /\ HWIdle /\ ConnIdle /\ StatIdle /\ ChunkIdle
    /\ ns_platform \in BOOLEAN
    /\ t_pc = "off" /\ t_in = <<0, 0>> /\ t_ts = NoTime /\ t_out = NoTime
    /\ o_pc = "new"
    /\ o_in \in (TimeSecs \X TimeNsecs) \X (TimeSecs \X TimeNsecs)
    /\ o_path = <<"none", "none">>
    /\ o_ts = <<NoTime, NoTime>>
    /\ o_cmp = NoTime

\* o_ts[i] = FSTime.from_timespec(o_in[i])
OrderFromTimespec(i) ==
    /\ OrderOnly
    /\ o_pc = "new"
    /\ o_path[i] = "none"
    /\ o_ts' = [o_ts EXCEPT ![i] = FromTimespec(ns_platform, TimespecVal(o_in[i]))]
    /\ o_path' = [o_path EXCEPT ![i] = "from_timespec"]
    /\ UNCHANGED <<o_pc, o_in, o_cmp>>

\* o_ts[i] = FSTime.from_stat_time(t), t being the platform's stat time for
\* o_in[i].
OrderFromStatTime(i) ==
    /\ OrderOnly
    /\ o_pc = "new"
    /\ o_path[i] = "none"
    /\ o_ts' = [o_ts EXCEPT ![i] =
                   FromStatTime(ns_platform, NativeTime(ns_platform, o_in[i]))]
    /\ o_path' = [o_path EXCEPT ![i] = "from_stat_time"]
    /\ UNCHANGED <<o_pc, o_in, o_cmp>>

\* cmp(o_ts[1], o_ts[2]), which '<' and '==' on the two values evaluate.
OrderCompare ==
    /\ OrderOnly
    /\ o_pc = "new"
    /\ o_path[1] # "none" /\ o_path[2] # "none"
    /\ o_cmp' = FSTimeCmp(o_ts[1], o_ts[2])
    /\ o_pc' = "compared"
    /\ UNCHANGED <<o_in, o_path, o_ts>>

NextOrder ==
    \/ \E i \in {1, 2} : OrderFromTimespec(i)
    \/ \E i \in {1, 2} : OrderFromStatTime(i)
    \/ OrderCompare

SpecOrder == InitOrder /\ [][NextOrder]_vars

\* The nanosecond count of a (secs, nsecs) pair.
CountOf(p) == p[1] * NsecPerSec + p[2]

----------------------------------------------------------------------------
(* stat_result.from_stat_rep: helpers.py lines 511-543.                    *)

StatTimes == {<<0, 0>>, <<1, 500000000>>, <<-1, 250000000>>}
StatOther == <<33188, 7, 2049, 1, 1000, 1000, 0, 42>>

\* stat_result.from_stat_rep(st)
FromStatRep(nsmode, st) ==
    LET atime == IF nsmode THEN st.atime ELSE FromStatTime(nsmode, st.atime)
        mtime == IF nsmode THEN st.mtime ELSE FromStatTime(nsmode, st.mtime)
        ctime == IF nsmode THEN st.ctime ELSE FromStatTime(nsmode, st.ctime)
    IN  [kind     |-> "stat_result",
         other    |-> st.other,
         st_atime |-> FromStatTime(nsmode, atime),
         st_mtime |-> FromStatTime(nsmode, mtime),
         st_ctime |-> FromStatTime(nsmode, ctime)]

TimeFields == {"st_atime", "st_mtime", "st_ctime"}

StatOnly ==
    UNCHANGED <<hwvars, connvars, t_pc, t_in, t_ts, t_out, ordvars, chunkvars>>

InitStat ==
    /\ HWIdle /\ ConnIdle /\ OrderIdle /\ ChunkIdle
    /\ t_pc = "off" /\ t_in = <<0, 0>> /\ t_ts = NoTime /\ t_out = NoTime
    /\ ns_platform \in BOOLEAN
    /\ st_pc = "new"
    /\ \E a \in StatTimes, m \in StatTimes, c \in StatTimes :
          st_native = [kind  |-> IF ns_platform THEN "tuple" ELSE "object",
                       other |-> StatOther,
                       atime |-> NativeTime(ns_platform, a),
                       mtime |-> NativeTime(ns_platform, m),
                       ctime |-> NativeTime(ns_platform, c)]
    /\ st_result = NoTime
    /\ st_seen = NoTime

\* result = stat_result.from_stat_rep(st)
StatFromStatRep ==
    /\ StatOnly
    /\ st_pc = "new"
    /\ st_result' = FromStatRep(ns_platform, st_native)
    /\ st_pc' = "built"
    /\ UNCHANGED <<ns_platform, st_native, st_seen>>

\* result.<field>.approx_secs(), as utime does with the times it is given
StatApproxSecs(f) ==
    /\ StatOnly
    /\ st_pc = "built"
    /\ st_seen' = ApproxSecs(ns_platform, st_result[f])
    /\ st_pc' = "seen"
    /\ UNCHANGED <<ns_platform, st_native, st_result>>

NextStat ==
    \/ StatFromStatRep
    \/ \E f \in TimeFields : StatApproxSecs(f)

SpecStat == InitStat /\ [][NextStat]_vars

\* The native time behind a time field of the result.
NativeOf(f) ==
    IF f = "st_atime" THEN st_native.atime
    ELSE IF f = "st_mtime" THEN st_native.mtime
    ELSE st_native.ctime

\* C10: for either native representation, each of st_atime, st_mtime and
\* st_ctime of the result is a timestamp wrapping the native time once: its
\* value is a number, never another timestamp, and approx_secs on it returns
\* a float.
C10_TimesWrappedOnce ==
    /\ st_pc \in {"built", "seen"} =>
          \A f \in TimeFields :
              /\ st_result[f].kind = "FSTime"
              /\ st_result[f].v.kind \in {"int", "float"}
              /\ st_result[f].v.kind = "float" => st_result[f].v = NativeOf(f)
              /\ st_result[f].v.kind = "int" =>
                     st_result[f].v.v =
                         NativeOf(f).v[1] * 1000000000 + NativeOf(f).v[2]
    /\ st_pc = "seen" => st_seen.kind = "float"

----------------------------------------------------------------------------
(* chunkyreader(f, count) with a count given: helpers.py lines 259-272.    *)
(* Chunks are modelled by their lengths.                                   *)

ChunkSize == 65536
MaxCount == 3
MaxShort == 3

Min(a, b) == IF a <= b THEN a ELSE b

\* Counts around zero and around one and two full chunks.
ChunkCounts ==
    (0..MaxCount) \cup {ChunkSize - 1, ChunkSize, ChunkSize + 1, 2 * ChunkSize + 1}

\* A reader that asks for a full chunk whatever is left to read.
ChunkRequestFull(count) == ChunkSize

\* The size chunkyreader asks of f.read: min(count, 65536)
ChunkRequest(count) == Min(count, ChunkSize)

\* The lengths f.read(req) may return with avail bytes before end-of-stream:
\* 0 at end-of-stream only, otherwise at least one byte and at most req. The
\* model lets the first MaxShort reads be short.
ReadLens(req, avail, n) ==
    IF avail = 0 THEN {0}
    ELSE {Min(req, avail)} \cup
         (IF n < MaxShort
          THEN {k \in {1, req \div 2, req - 1} : k >= 1 /\ k <= Min(req, avail)}
          ELSE {})

ChunkOnly == UNCHANGED <<hwvars, connvars, timevars, statvars, ordvars>>

InitChunk ==
    /\ HWIdle /\ ConnIdle /\ TimeIdle /\ StatIdle /\ OrderIdle
    /\ ck_pc = "loop"
    /\ ck_count0 \in ChunkCounts
    /\ ck_count = ck_count0
    /\ ck_avail \in {a \in {0, 1, ck_count0 - 1, ck_count0, ck_count0 + 1} : a >= 0}
    /\ ck_req = 0
    /\ ck_b = 0
    /\ ck_sum = 0
    /\ ck_n = 0

\* 'while count > 0' is false: the generator ends.
ChunkDone ==
    /\ ChunkOnly
    /\ ck_pc = "loop"
    /\ ~(ck_count > 0)
    /\ ck_pc' = "done"
    /\ UNCHANGED <<ck_count0, ck_count, ck_avail, ck_req, ck_b, ck_sum, ck_n>>

\* b = f.read(min(count, 65536)), which returns k bytes
ChunkRead(k) ==
    /\ ChunkOnly
    /\ ck_pc = "loop"
    /\ ck_count > 0
    /\ k \in ReadLens(ChunkRequest(ck_count), ck_avail, ck_n)
    /\ ck_req' = ChunkRequest(ck_count)
    /\ ck_b' = k
    /\ ck_avail' = ck_avail - k
    /\ ck_pc' = "got"
    /\ UNCHANGED <<ck_count0, ck_count, ck_sum, ck_n>>

\* 'if not b: raise IOError(...)'
ChunkRaise ==
    /\ ChunkOnly
    /\ ck_pc = "got"
    /\ ck_b = 0
    /\ ck_pc' = "raised_ioerror"
    /\ UNCHANGED <<ck_count0, ck_count, ck_avail, ck_req, ck_b, ck_sum, ck_n>>

\* 'yield b; count -= len(b)'
ChunkYield ==
    /\ ChunkOnly
    /\ ck_pc = "got"
    /\ ck_b # 0
    /\ ck_sum' = ck_sum + ck_b
    /\ ck_n' = ck_n + 1
    /\ ck_count' = ck_count - ck_b
    /\ ck_pc' = "loop"
    /\ UNCHANGED <<ck_count0, ck_avail, ck_req, ck_b>>

NextChunk ==
    \/ ChunkDone
    \/ \E k \in ReadLens(ChunkRequest(ck_count), ck_avail, ck_n) : ChunkRead(k)
    \/ ChunkRaise
    \/ ChunkYield

SpecChunk == InitChunk /\ [][NextChunk]_vars

\* C18: with a positive count, every chunk yielded is non-empty, every
\* request asks for at least one byte and for no more than the bytes still
\* to read nor than 65536, the lengths of the chunks add up to count when
\* the reader finishes, and it finishes only so: when the stream ends with
\* bytes still to read it raises IOError.
C18_ReadsExactlyCount ==
    ck_count0 > 0 =>
        /\ ck_sum + ck_count = ck_count0
        /\ ck_count >= 0
        /\ ck_pc = "got" =>
               ck_req >= 1 /\ ck_req <= ck_count /\ ck_req <= ChunkSize
        /\ (ck_pc = "loop" /\ ck_n > 0) => ck_b >= 1
        /\ ck_pc = "done" => ck_sum = ck_count0
        /\ ck_pc = "raised_ioerror" => ck_count > 0 /\ ck_avail = 0
        /\ (ck_pc = "got" /\ ck_b = 0) => ck_count > 0 /\ ~ENABLED ChunkYield

\* One byte more than a full chunk has been read in three chunks.
C18_Witness ==
    /\ ck_pc = "done"
    /\ ck_count0 = ChunkSize + 1
    /\ ck_n = 3
    /\ ck_sum = ChunkSize + 1

====
